---- MODULE Spec2Model ----
(***************************************************************************)
(* Conversation-state and context-budget manager of Ollama-Chat-Mobile.    *)
(*                                                                         *)
(* The module models rhea.py's ChatManager (conversation buffer, key       *)
(* events, character profiles, compaction on append, periodic cleanup)     *)
(* and the handlers of api.py and rhea.py that drive it (the WebSocket     *)
(* chat loop, the terminal chat loop, the REST routes).                    *)
(*                                                                         *)
(* Python strings are TLA+ strings: Len is len(), \o is concatenation and  *)
(* SubSeq(s, i, i) is the character s[i-1].  Python lists are sequences,   *)
(* so the list index k of the source is the sequence index k + 1 here.     *)
(* An Optional value is a sequence of length at most one: None is << >>.   *)
(***************************************************************************)
EXTENDS Integers, Sequences, FiniteSets, TLC

VARIABLES
    conversation,               \* ChatManager.conversation
    key_events,                 \* ChatManager.key_events
    character_profiles,         \* ChatManager.character_profiles (role -> profile)
    current_assistant_profile,  \* ChatManager.current_assistant_profile (Optional)
    current_user_profile,       \* ChatManager.current_user_profile (Optional)
    context_limit,              \* ChatManager.context_limit
    config_context_limit,       \* config_manager.config.context_limit
    message_count,              \* ChatManager.message_count
    last_cleanup,               \* ChatManager.last_cleanup
    prev,                       \* the conversation as the last operation found it
    last,                       \* the last operation: its name, inputs and outcome
    append_run,                 \* add_to_conversation calls since one last compacted
    pc,                         \* per session: where its handler stands
    system_message,             \* per session: chat()'s local system_message (Optional)
    response,                   \* per session: the fragments or text accumulated
    stream,                     \* per session: the gateway's stream being read (Optional)
    sent,                       \* per session: what the turn has shown its client so far
    exc                         \* per session: the exception being handled (Optional)

manager == <<conversation, key_events, character_profiles,
             current_assistant_profile, current_user_profile,
             context_limit, config_context_limit, message_count, last_cleanup>>

session == <<pc, system_message, response, stream, sent, exc>>

vars == <<manager, prev, last, append_run, session>>

----------------------------------------------------------------------------
(* Python values *)

None == << >>

Some(v) == <<v>>

Max(a, b) == IF a >= b THEN a ELSE b

Min(a, b) == IF a <= b THEN a ELSE b

\* s[-n:] of a list, for n >= 1: the whole list when it has at most n elements.
LastN(s, n) == IF Len(s) <= n THEN s ELSE SubSeq(s, Len(s) - n + 1, Len(s))

\* list.insert(k, x) for 0 <= k <= len(s), k being the 0-based index of the source.
Insert(s, k, x) == SubSeq(s, 1, k) \o <<x>> \o SubSeq(s, k + 1, Len(s))

\* sep.join(parts)
RECURSIVE Join(_, _)
Join(parts, sep) ==
    IF parts = << >> THEN ""
    ELSE IF Len(parts) = 1 THEN parts[1]
    ELSE parts[1] \o sep \o Join(Tail(parts), sep)

\* The characters str.split() separates on.
IsSpace(c) == c \in {" ", "\n", "\t", "\r"}

\* len(s.split()): the number of maximal runs of non-space characters.
WordCount(s) ==
    Cardinality({i \in 1..Len(s) :
        /\ ~IsSpace(SubSeq(s, i, i))
        /\ (i = 1 \/ IsSpace(SubSeq(s, i - 1, i - 1)))})

----------------------------------------------------------------------------
(* Character profiles *)

DefaultAssistantProfile ==
    [name |-> "Assistant", traits |-> <<"helpful", "friendly">>,
     backstory |-> "A helpful AI assistant.",
     goals |-> "To help users effectively.",
     personality |-> "Professional and courteous."]

DefaultUserProfile ==
    [name |-> "User", traits |-> <<"human">>,
     backstory |-> "A user of the system.",
     goals |-> "To interact with the assistant.",
     personality |-> "Regular user."]

\* dict.get(role): the profile, or None.
ProfileGet(profiles, role) ==
    IF role \in DOMAIN profiles THEN Some(profiles[role]) ELSE None

----------------------------------------------------------------------------
(* System prompt *)

FallbackContent == "Basic AI assistant mode."

_format_key_events(events) ==
    IF events = << >> THEN "No significant events yet."
    ELSE Join([i \in 1..Len(events) |-> "- " \o events[i]], "\n")

\* The f-string of _create_system_message; ap and up are profiles (not None).
SystemContext(ap, up, events) ==
    "You are " \o ap.name
    \o ". Fully embody this character:\n\n        Your Identity:\n        - Name: "
    \o ap.name
    \o "\n        - Traits: " \o Join(ap.traits, ", ")
    \o "\n        - Backstory: " \o ap.backstory
    \o "\n        - Goals: " \o ap.goals
    \o "\n        - Personality: " \o ap.personality
    \o "\n\n        Your Context:\n        - You are interacting with: " \o up.name
    \o "\n        - Their traits: " \o Join(up.traits, ", ")
    \o "\n        - Their backstory: " \o up.backstory
    \o "\n        \n        Recent Events:\n        " \o _format_key_events(events)
    \o "\n\n        Stay completely in character, using all elements from your profile to shape your responses."

\* A composer whose fallback also renders the key events.
compose_fallback_with_events(ap, up, events) ==
    Some([role |-> "system",
          content |-> FallbackContent \o "\n" \o _format_key_events(events)])

\* Some(message), or None when the call raises AttributeError: the f-string
\* reads current_user_profile.name with no check that the profile is set.
_create_system_message(ap, up, events) ==
    IF ap = None THEN Some([role |-> "system", content |-> FallbackContent])
    ELSE IF up = None THEN None
    ELSE Some([role |-> "system", content |-> SystemContext(ap[1], up[1], events)])

----------------------------------------------------------------------------
(* Conversation buffer: append and implicit compaction *)

\* sum(len(msg["content"]) for msg in conversation)
RECURSIVE TotalLength(_)
TotalLength(conv) ==
    IF conv = << >> THEN 0 ELSE Len(conv[1].content) + TotalLength(Tail(conv))

\* A trigger at the full limit instead of three quarters of it.
OverLimit(total, limit) == total > limit

\* total_length > self.context_limit * 0.75, on integers
OverBudget(total, limit) == 4 * total > 3 * limit

\* A compaction that keeps at least six messages instead of four.
keep_six(limit) == Max(6, limit \div 1000)

num_msgs_to_keep(limit) == Max(4, limit \div 1000)

\* The name prefix of add_to_conversation.
profile_context(role, content, up, ap) ==
    IF role = "user" /\ up # None THEN up[1].name \o ":\n" \o content
    ELSE IF role = "assistant" /\ ap # None THEN ap[1].name \o ":\n" \o content
    ELSE content

\* [self.conversation[0]] + self.conversation[-num_msgs_to_keep:]
CompactTail(conv, limit) == <<conv[1]>> \o LastN(conv, num_msgs_to_keep(limit))

summary_msg(up, ap) ==
    [role |-> "system",
     content |-> "Previous conversation between " \o ap.name \o " and "
                 \o up.name \o " has been summarized."]

\* ChatManager.add_to_conversation on a buffer: the buffer it leaves, whether the
\* compaction branch was taken, and whether the call raised (AttributeError when
\* the marker is built with a profile that is None; the buffer is already cut).
AddToConversation(conv, role, content, up, ap, limit) ==
    LET new_message == [role |-> role, content |-> profile_context(role, content, up, ap)]
        pushed == Append(conv, new_message)
    IN  IF OverBudget(TotalLength(pushed), limit)
        THEN LET cut == CompactTail(pushed, limit)
             IN  IF Len(cut) > 2
                 THEN IF ap = None \/ up = None
                      THEN [conversation |-> cut, fired |-> TRUE, raised |-> TRUE]
                      ELSE [conversation |-> Insert(cut, 1, summary_msg(up[1], ap[1])),
                            fired |-> TRUE, raised |-> FALSE]
                 ELSE [conversation |-> cut, fired |-> TRUE, raised |-> FALSE]
        ELSE [conversation |-> pushed, fired |-> FALSE, raised |-> FALSE]

Outcome(op, arg, fired, raised) ==
    [op |-> op, arg |-> arg, fired |-> fired, raised |-> raised]

add_to_conversation(role, content) ==
    LET r == AddToConversation(conversation, role, content, current_user_profile,
                               current_assistant_profile, context_limit)
    IN  /\ conversation' = r.conversation
        /\ prev' = conversation
        /\ last' = Outcome("add_to_conversation", <<role, content>>, r.fired, r.raised)
        /\ append_run' = IF r.fired THEN 0 ELSE append_run + 1
        /\ UNCHANGED session
        /\ UNCHANGED <<key_events, character_profiles, current_assistant_profile,
                       current_user_profile, context_limit, config_context_limit,
                       message_count, last_cleanup>>

----------------------------------------------------------------------------
(* Key events and profiles *)

\* The event is recorded first; the system message is rebuilt after it, and the
\* call raises when the rebuild does (AttributeError) or the buffer is empty.
AddKeyEvent(conv, events, event, ap, up) ==
    LET msg == _create_system_message(ap, up, Append(events, event))
        raised == msg = None \/ conv = << >>
    IN  [key_events |-> Append(events, event),
         conversation |-> IF raised THEN conv ELSE [conv EXCEPT ![1] = msg[1]],
         raised |-> raised]

add_key_event(event) ==
    LET r == AddKeyEvent(conversation, key_events, event,
                         current_assistant_profile, current_user_profile)
    IN  /\ key_events' = r.key_events
        /\ conversation' = r.conversation
        /\ prev' = conversation
        /\ last' = Outcome("add_key_event", <<event>>, FALSE, r.raised)
        /\ UNCHANGED <<append_run, session>>
        /\ UNCHANGED <<character_profiles, current_assistant_profile,
                       current_user_profile, context_limit, config_context_limit,
                       message_count, last_cleanup>>

add_character_profile(role, profile) ==
    /\ character_profiles' =
           [k \in DOMAIN character_profiles \cup {role} |->
               IF k = role THEN profile ELSE character_profiles[k]]
    /\ prev' = conversation
    /\ last' = Outcome("add_character_profile", <<role>>, FALSE, FALSE)
    /\ UNCHANGED <<append_run, session>>
    /\ UNCHANGED <<conversation, key_events, current_assistant_profile,
                   current_user_profile, context_limit, config_context_limit,
                   message_count, last_cleanup>>

set_current_profiles(user_role, assistant_role) ==
    /\ current_user_profile' = ProfileGet(character_profiles, user_role)
    /\ current_assistant_profile' = ProfileGet(character_profiles, assistant_role)
    /\ prev' = conversation
    /\ last' = Outcome("set_current_profiles", <<user_role, assistant_role>>, FALSE, FALSE)
    /\ UNCHANGED <<append_run, session>>
    /\ UNCHANGED <<conversation, key_events, character_profiles, context_limit,
                   config_context_limit, message_count, last_cleanup>>

----------------------------------------------------------------------------
(* Periodic cleanup *)

CleanupInterval == 50

\* A cleanup that keeps a quarter of the buffer, however short.
keep_quarter(conv) == Len(conv) \div 4

msgs_to_keep(conv) == Max(4, Len(conv) \div 4)

\* A cleanup that keeps the recent messages only.
CleanupTailOnly(conv) == LastN(conv, msgs_to_keep(conv))

\* [self.conversation[0]] + self.conversation[-msgs_to_keep:]
CleanupTail(conv) == <<conv[1]>> \o LastN(conv, msgs_to_keep(conv))

\* The counter is advanced first; on every 50th call since the last cleanup the
\* buffer is cut (IndexError on an empty buffer, last_cleanup already set).
periodic_cleanup ==
    LET count == message_count + 1
        due == count - last_cleanup >= CleanupInterval
        raised == due /\ conversation = << >>
    IN  /\ message_count' = count
        /\ last_cleanup' = IF due THEN count ELSE last_cleanup
        /\ conversation' = IF due /\ ~raised THEN CleanupTail(conversation)
                           ELSE conversation
        /\ prev' = conversation
        /\ last' = Outcome("periodic_cleanup", << >>, due, raised)
        /\ UNCHANGED <<append_run, session>>
        /\ UNCHANGED <<key_events, character_profiles, current_assistant_profile,
                       current_user_profile, context_limit, config_context_limit>>

----------------------------------------------------------------------------
(* REST routes of api.py *)

\* The names bound in api.py's module namespace: its imports (lines 1-7), its
\* module-level objects (9-18) and its route functions.  The routes read
\* request and jsonify, which no import binds: evaluating either raises
\* NameError.
ApiGlobals ==
    {"Flask", "Sock", "CORS", "json", "ollama", "Iterator",
     "ChatManager", "ConfigManager", "Message", "CharacterProfile",
     "app", "sock", "config_manager", "chat_manager",
     "chat", "handle_config", "handle_profiles", "handle_events",
     "get_current_characters", "clear_conversation", "get_context_status",
     "trim_context"}

NameDefined(name) == name \in ApiGlobals

\* The loop of trim_context, scanning conv[i] from the most recent message down:
\* a message is put right after the system message while the word count stays
\* within target_tokens = limit * target_percentage / 100; the first one that
\* does not fit ends the scan.
RECURSIVE TrimScan(_, _, _, _, _, _)
TrimScan(conv, i, current_tokens, kept, limit, target_percentage) ==
    IF i < 2 THEN kept
    ELSE LET message_tokens == WordCount(conv[i].content)
         IN  IF 100 * (current_tokens + message_tokens) <= limit * target_percentage
             THEN TrimScan(conv, i - 1, current_tokens + message_tokens,
                           <<conv[i]>> \o kept, limit, target_percentage)
             ELSE kept

\* new_conversation of trim_context, for a non-empty buffer.
TrimToTarget(conv, limit, target_percentage) ==
    <<conv[1]>> \o TrimScan(conv, Len(conv), WordCount(conv[1].content), << >>,
                            limit, target_percentage)

\* POST /api/context/trim.  Its first statement reads request.json.
trim_context(target_percentage) ==
    LET raised == ~NameDefined("request") \/ conversation = << >>
                  \/ ~NameDefined("jsonify")
        trimmed == NameDefined("request") /\ conversation # << >>
    IN  /\ conversation' = IF trimmed
                           THEN TrimToTarget(conversation, config_context_limit,
                                             target_percentage)
                           ELSE conversation
        /\ prev' = conversation
        /\ last' = Outcome("trim_context", <<target_percentage>>, trimmed, raised)
        /\ UNCHANGED <<append_run, session>>
        /\ UNCHANGED <<key_events, character_profiles, current_assistant_profile,
                       current_user_profile, context_limit, config_context_limit,
                       message_count, last_cleanup>>

\* POST /api/clear.  The buffer is emptied, then set to the new system message
\* unless composing it raises; the handler's except clause takes over then, and
\* also when jsonify is evaluated, and itself calls jsonify.
clear_conversation ==
    LET msg == _create_system_message(current_assistant_profile,
                                      current_user_profile, key_events)
    IN  /\ conversation' = IF msg = None THEN << >> ELSE <<msg[1]>>
        /\ prev' = conversation
        /\ last' = Outcome("clear_conversation", << >>, msg # None,
                           msg = None \/ ~NameDefined("jsonify"))
        /\ UNCHANGED <<append_run, session>>
        /\ UNCHANGED <<key_events, character_profiles, current_assistant_profile,
                       current_user_profile, context_limit, config_context_limit,
                       message_count, last_cleanup>>

----------------------------------------------------------------------------
(* Construction *)

\* ChatManager.__init__ on a loaded profile store: the state it leaves when
\* _initialize_conversation does not raise.
Constructed(profiles, limit) ==
    LET ap == ProfileGet(profiles, "assistant")
        up == ProfileGet(profiles, "user")
        msg == _create_system_message(ap, up, << >>)
    IN  /\ msg # None
        /\ character_profiles = profiles
        /\ current_assistant_profile = ap
        /\ current_user_profile = up
        /\ key_events = << >>
        /\ conversation = <<msg[1]>>
        /\ context_limit = limit
        /\ config_context_limit = limit
        /\ message_count = 0
        /\ last_cleanup = 0
        /\ prev = << >>
        /\ last = Outcome("__init__", << >>, FALSE, FALSE)
        /\ append_run = 0

\* The handlers a process can run: two WebSocket connections of api.py, the
\* terminal chat of rhea.py, and a caller of ChatManager.run_llm.
Sessions == {"ws1", "ws2", "tty", "llm"}

\* The sessions in `active` are about to start; the others never run.
SessionsStart(active) ==
    /\ pc = [c \in Sessions |-> IF c \in active THEN "start" ELSE "off"]
    /\ system_message = [c \in Sessions |-> None]
    /\ response = [c \in Sessions |-> << >>]
    /\ stream = [c \in Sessions |-> None]
    /\ sent = [c \in Sessions |-> << >>]
    /\ exc = [c \in Sessions |-> None]

\* The profile stores profiles.json can hold at start-up.
EmptyStore == [k \in {} |-> DefaultUserProfile]

DefaultStore == [k \in {"assistant", "user"} |->
                    IF k = "assistant" THEN DefaultAssistantProfile
                    ELSE DefaultUserProfile]

DefaultContextLimit == 5000

----------------------------------------------------------------------------
(* Chat turns: the Inference Gateway and the handlers that stream from it *)

\* What ollama.chat(messages=..., stream=True) hands back: the messages it
\* was called on, the fragments it will yield and whether it then raises
\* instead of ending.
GatewayStream(messages, chunks, fails) ==
    [messages |-> messages, chunks |-> chunks, pos |-> 0, fails |-> fails]

\* One step of `for chunk in stream`: "chunk", "raise" or "stop".
StreamNext(st) ==
    IF st.pos < Len(st.chunks) THEN "chunk"
    ELSE IF st.fails THEN "raise" ELSE "stop"

Payload(kind, text) == [kind |-> kind, text |-> text]

Step(c, op, arg, fired, raised) ==
    /\ prev' = conversation
    /\ last' = Outcome(op, <<c>> \o arg, fired, raised)

\* The handler of session c moves to `to`, with e the exception it caught.
Goto(c, to, e) ==
    /\ pc' = [pc EXCEPT ![c] = to]
    /\ exc' = [exc EXCEPT ![c] = e]

\* api.py 25: chat() sets the current profiles.
ws_set_profiles(c) ==
    /\ pc[c] = "start"
    /\ current_user_profile' = ProfileGet(character_profiles, "user")
    /\ current_assistant_profile' = ProfileGet(character_profiles, "assistant")
    /\ Goto(c, "clear", None)
    /\ Step(c, "ws_set_profiles", << >>, FALSE, FALSE)
    /\ UNCHANGED <<conversation, key_events, character_profiles, context_limit,
                   config_context_limit, message_count, last_cleanup, append_run,
                   system_message, response, stream, sent>>

\* api.py 28: chat_manager.conversation = []
ws_clear(c) ==
    /\ pc[c] = "clear"
    /\ conversation' = << >>
    /\ Goto(c, "compose", None)
    /\ Step(c, "ws_clear", << >>, FALSE, FALSE)
    /\ UNCHANGED <<key_events, character_profiles, current_assistant_profile,
                   current_user_profile, context_limit, config_context_limit,
                   message_count, last_cleanup, append_run,
                   system_message, response, stream, sent>>

\* api.py 29: system_message = chat_manager._create_system_message(); an
\* exception here is outside the try and ends the handler.
ws_compose(c) ==
    LET msg == _create_system_message(current_assistant_profile,
                                      current_user_profile, key_events)
    IN  /\ pc[c] = "compose"
        /\ system_message' = [system_message EXCEPT ![c] = msg]
        /\ Goto(c, IF msg = None THEN "closed" ELSE "install", None)
        /\ Step(c, "ws_compose", << >>, FALSE, msg = None)
        /\ UNCHANGED <<manager, append_run, response, stream, sent>>

\* api.py 30: chat_manager.conversation = [system_message]
ws_install(c) ==
    /\ pc[c] = "install"
    /\ conversation' = <<system_message[c][1]>>
    /\ Goto(c, "greet", None)
    /\ Step(c, "ws_install", << >>, FALSE, FALSE)
    /\ UNCHANGED <<key_events, character_profiles, current_assistant_profile,
                   current_user_profile, context_limit, config_context_limit,
                   message_count, last_cleanup, append_run,
                   system_message, response, stream, sent>>

\* api.py 33-35: the confirmation reads both profile names; AttributeError on
\* a profile that is None ends the handler.
ws_greet(c) ==
    LET raised == current_user_profile = None \/ current_assistant_profile = None
    IN  /\ pc[c] = "greet"
        /\ sent' = [sent EXCEPT ![c] =
                      IF raised THEN << >>
                      ELSE <<Payload("system", "Chat initialized. You are "
                               \o current_user_profile[1].name \o ", speaking with "
                               \o current_assistant_profile[1].name)>>]
        /\ Goto(c, IF raised THEN "closed" ELSE "receive", None)
        /\ Step(c, "ws_greet", << >>, FALSE, raised)
        /\ UNCHANGED <<manager, append_run, system_message, response, stream>>

\* api.py 38-56: a message is received; an empty one is answered with an error
\* payload; otherwise the turn starts: the user message is prefixed with the
\* user's name and handed to add_to_conversation.
ws_receive(c, message) ==
    /\ pc[c] = "receive"
    /\ IF message = ""
       THEN /\ sent' = [sent EXCEPT ![c] = <<Payload("error", "Message is required")>>]
            /\ Goto(c, "receive", None)
            /\ Step(c, "ws_receive", <<message>>, FALSE, FALSE)
            /\ UNCHANGED <<manager, append_run>>
       ELSE IF current_user_profile = None
       THEN /\ sent' = [sent EXCEPT ![c] = << >>]
            /\ Goto(c, "except", Some("AttributeError"))
            /\ Step(c, "ws_receive", <<message>>, FALSE, TRUE)
            /\ UNCHANGED <<manager, append_run>>
       ELSE LET user_message == current_user_profile[1].name \o ":\n" \o message
                r == AddToConversation(conversation, "user", user_message,
                                       current_user_profile,
                                       current_assistant_profile, context_limit)
            IN  /\ conversation' = r.conversation
                /\ append_run' = IF r.fired THEN 0 ELSE append_run + 1
                /\ sent' = [sent EXCEPT ![c] = << >>]
                /\ Goto(c, IF r.raised THEN "except" ELSE "check",
                        IF r.raised THEN Some("AttributeError") ELSE None)
                /\ Step(c, "ws_receive", <<message>>, r.fired, r.raised)
                /\ UNCHANGED <<key_events, character_profiles,
                               current_assistant_profile, current_user_profile,
                               context_limit, config_context_limit,
                               message_count, last_cleanup>>
    /\ UNCHANGED <<system_message, response, stream>>

\* api.py 59-60: the head is put back if it is not a system message
\* (IndexError on an empty buffer).
ws_check_head(c) ==
    /\ pc[c] = "check"
    /\ IF conversation = << >>
       THEN /\ Goto(c, "except", Some("IndexError"))
            /\ UNCHANGED conversation
       ELSE /\ Goto(c, "open", None)
            /\ conversation' = IF conversation[1].role # "system"
                               THEN Insert(conversation, 0, system_message[c][1])
                               ELSE conversation
    /\ Step(c, "ws_check_head", << >>, FALSE, conversation = << >>)
    /\ UNCHANGED <<key_events, character_profiles, current_assistant_profile,
                   current_user_profile, context_limit, config_context_limit,
                   message_count, last_cleanup, append_run,
                   system_message, response, stream, sent>>

\* api.py 62-69: the stream is opened on the buffer; full_response = []
ws_open_stream(c, st) ==
    /\ pc[c] = "open"
    /\ stream' = [stream EXCEPT ![c] = Some(st)]
    /\ response' = [response EXCEPT ![c] = << >>]
    /\ Goto(c, "stream", None)
    /\ Step(c, "ws_open_stream", << >>, FALSE, FALSE)
    /\ UNCHANGED <<manager, append_run, system_message, sent>>

\* A loop that sends each fragment on but forgets to keep it.
ws_chunk_forgetful(c) ==
    LET st == stream[c][1]
        next == StreamNext(st)
        chunk_content == st.chunks[st.pos + 1]
    IN  /\ pc[c] = "stream"
        /\ CASE next = "chunk" ->
                 /\ stream' = [stream EXCEPT ![c] = Some([st EXCEPT !.pos = st.pos + 1])]
                 /\ UNCHANGED response
                 /\ IF current_assistant_profile = None
                    THEN /\ Goto(c, "except", Some("AttributeError"))
                         /\ UNCHANGED sent
                    ELSE /\ Goto(c, "stream", None)
                         /\ sent' = [sent EXCEPT ![c] =
                                       Append(sent[c], Payload("chunk", chunk_content))]
                 /\ Step(c, "ws_chunk", <<next>>, FALSE, current_assistant_profile = None)
             [] next = "raise" ->
                 /\ Goto(c, "except", Some("GatewayError"))
                 /\ Step(c, "ws_chunk", <<next>>, FALSE, TRUE)
                 /\ UNCHANGED <<stream, response, sent>>
             [] next = "stop" ->
                 /\ Goto(c, "store", None)
                 /\ Step(c, "ws_chunk", <<next>>, FALSE, FALSE)
                 /\ UNCHANGED <<stream, response, sent>>
        /\ UNCHANGED <<manager, append_run, system_message>>

\* api.py 70-76: one round of the loop: the next fragment is appended to
\* full_response and sent at once (AttributeError when the assistant profile
\* is None); the gateway raising, or ending, leaves the loop.
ws_chunk(c) ==
    LET st == stream[c][1]
        next == StreamNext(st)
        chunk_content == st.chunks[st.pos + 1]
    IN  /\ pc[c] = "stream"
        /\ CASE next = "chunk" ->
                 /\ stream' = [stream EXCEPT ![c] = Some([st EXCEPT !.pos = st.pos + 1])]
                 /\ response' = [response EXCEPT ![c] = Append(response[c], chunk_content)]
                 /\ IF current_assistant_profile = None
                    THEN /\ Goto(c, "except", Some("AttributeError"))
                         /\ UNCHANGED sent
                    ELSE /\ Goto(c, "stream", None)
                         /\ sent' = [sent EXCEPT ![c] =
                                       Append(sent[c], Payload("chunk", chunk_content))]
                 /\ Step(c, "ws_chunk", <<next>>, FALSE, current_assistant_profile = None)
             [] next = "raise" ->
                 /\ Goto(c, "except", Some("GatewayError"))
                 /\ Step(c, "ws_chunk", <<next>>, FALSE, TRUE)
                 /\ UNCHANGED <<stream, response, sent>>
             [] next = "stop" ->
                 /\ Goto(c, "store", None)
                 /\ Step(c, "ws_chunk", <<next>>, FALSE, FALSE)
                 /\ UNCHANGED <<stream, response, sent>>
        /\ UNCHANGED <<manager, append_run, system_message>>

\* api.py 78-81: the fragments are joined, prefixed with the assistant's name
\* and handed to add_to_conversation.
ws_store(c) ==
    /\ pc[c] = "store"
    /\ IF current_assistant_profile = None
       THEN /\ Goto(c, "except", Some("AttributeError"))
            /\ Step(c, "ws_store", << >>, FALSE, TRUE)
            /\ UNCHANGED <<manager, append_run>>
       ELSE LET complete_response == Join(response[c], "")
                assistant_message ==
                    current_assistant_profile[1].name \o ":\n" \o complete_response
                r == AddToConversation(conversation, "assistant", assistant_message,
                                       current_user_profile,
                                       current_assistant_profile, context_limit)
            IN  /\ conversation' = r.conversation
                /\ append_run' = IF r.fired THEN 0 ELSE append_run + 1
                /\ Goto(c, IF r.raised THEN "except" ELSE "receive",
                        IF r.raised THEN Some("AttributeError") ELSE None)
                /\ Step(c, "ws_store", << >>, r.fired, r.raised)
                /\ UNCHANGED <<key_events, character_profiles,
                               current_assistant_profile, current_user_profile,
                               context_limit, config_context_limit,
                               message_count, last_cleanup>>
    /\ UNCHANGED <<system_message, response, stream, sent>>

\* A handler that saves the partial response when it reports the exception.
ws_except_partial(c) ==
    /\ pc[c] = "except"
    /\ conversation' = Append(conversation,
                           [role |-> "assistant", content |-> Join(response[c], "")])
    /\ sent' = [sent EXCEPT ![c] = Append(sent[c], Payload("error", exc[c][1]))]
    /\ Goto(c, "receive", None)
    /\ Step(c, "ws_except", <<exc[c][1]>>, FALSE, FALSE)
    /\ UNCHANGED <<key_events, character_profiles, current_assistant_profile,
                   current_user_profile, context_limit, config_context_limit,
                   message_count, last_cleanup, append_run,
                   system_message, response, stream>>

\* api.py 83-84: the exception is reported as an error payload and the loop
\* goes on to the next message.
ws_except(c) ==
    /\ pc[c] = "except"
    /\ sent' = [sent EXCEPT ![c] = Append(sent[c], Payload("error", exc[c][1]))]
    /\ Goto(c, "receive", None)
    /\ Step(c, "ws_except", <<exc[c][1]>>, FALSE, FALSE)
    /\ UNCHANGED <<manager, append_run, system_message, response, stream>>

----------------------------------------------------------------------------
(* Terminal chat loop (run_chat) and ChatManager.run_llm *)

\* str.find: the 1-based position of the first occurrence of pat, 0 if none.
Find(text, pat) ==
    LET hits == {i \in 1..(Len(text) - Len(pat) + 1) :
                    SubSeq(text, i, i + Len(pat) - 1) = pat}
    IN  IF hits = {} THEN 0 ELSE CHOOSE i \in hits : \A j \in hits : i <= j

\* str.startswith
StartsWith(text, pat) ==
    IF Len(text) < Len(pat) THEN FALSE ELSE SubSeq(text, 1, Len(pat)) = pat

\* str.strip()
RECURSIVE Strip(_)
Strip(text) ==
    IF text = "" THEN ""
    ELSE IF IsSpace(SubSeq(text, 1, 1)) THEN Strip(SubSeq(text, 2, Len(text)))
    ELSE IF IsSpace(SubSeq(text, Len(text), Len(text)))
         THEN Strip(SubSeq(text, 1, Len(text) - 1))
    ELSE text

\* text.replace(pat, rep, 1)
ReplaceFirst(text, pat, rep) ==
    LET i == Find(text, pat)
    IN  IF i = 0 THEN text
        ELSE SubSeq(text, 1, i - 1) \o rep \o SubSeq(text, i + Len(pat), Len(text))

\* One `while pat in text` loop of format_streaming_text.
RECURSIVE ReplacePairs(_, _, _, _)
ReplacePairs(text, pat, open, close) ==
    IF Find(text, pat) = 0 THEN text
    ELSE ReplacePairs(ReplaceFirst(ReplaceFirst(text, pat, open), pat, close),
                      pat, open, close)

format_streaming_text(text) ==
    ReplacePairs(ReplacePairs(ReplacePairs(text,
        "**", "[bold]", "[/bold]"),
        "*", "[italic]", "[/italic]"),
        "_", "[underline]", "[/underline]")

\* rhea.py 523-538: the characters are selected among the stored roles and
\* made current; the welcome message is added to the interface.
tty_start(c, user_role, assistant_role) ==
    /\ pc[c] = "start"
    /\ IF DOMAIN character_profiles = {}
       THEN /\ Goto(c, "closed", None)
            /\ sent' = [sent EXCEPT ![c] = << >>]
            /\ UNCHANGED <<current_user_profile, current_assistant_profile>>
       ELSE /\ ProfileGet(character_profiles, user_role) # None
            /\ ProfileGet(character_profiles, assistant_role) # None
            /\ current_user_profile' = ProfileGet(character_profiles, user_role)
            /\ current_assistant_profile' = ProfileGet(character_profiles, assistant_role)
            /\ sent' = [sent EXCEPT ![c] = <<Payload("system",
                          "Welcome to a conversation with "
                          \o ProfileGet(character_profiles, assistant_role)[1].name)>>]
            /\ Goto(c, "receive", None)
    /\ Step(c, "tty_start", <<user_role, assistant_role>>, FALSE, FALSE)
    /\ UNCHANGED <<conversation, key_events, character_profiles, context_limit,
                   config_context_limit, message_count, last_cleanup, append_run,
                   system_message, response, stream>>

\* rhea.py 544-564: one line of input: blank, a command, or an utterance that
\* is shown and handed to add_to_conversation.
tty_input(c, user_input) ==
    /\ pc[c] = "receive"
    /\ CASE Strip(user_input) = "" ->
              /\ Goto(c, "receive", None)
              /\ Step(c, "tty_input", <<user_input>>, FALSE, FALSE)
              /\ UNCHANGED <<manager, append_run, sent>>
         [] StartsWith(user_input, "/key ") ->
              LET event == Strip(SubSeq(user_input, 6, Len(user_input)))
                  r == AddKeyEvent(conversation, key_events, event,
                                   current_assistant_profile, current_user_profile)
              IN  /\ key_events' = r.key_events
                  /\ conversation' = r.conversation
                  /\ sent' = [sent EXCEPT ![c] =
                                IF r.raised THEN <<Payload("error", "Error")>>
                                ELSE <<Payload("system", "Added key event: " \o event)>>]
                  /\ Goto(c, "receive", None)
                  /\ Step(c, "tty_input", <<user_input>>, FALSE, r.raised)
                  /\ UNCHANGED <<character_profiles, current_assistant_profile,
                                 current_user_profile, context_limit,
                                 config_context_limit, message_count,
                                 last_cleanup, append_run>>
         [] user_input = "/events" ->
              /\ sent' = [sent EXCEPT ![c] = <<Payload("system",
                            "Key events:\n" \o _format_key_events(key_events))>>]
              /\ Goto(c, "receive", None)
              /\ Step(c, "tty_input", <<user_input>>, FALSE, FALSE)
              /\ UNCHANGED <<manager, append_run>>
         [] user_input = "/exit" ->
              /\ Goto(c, "closed", None)
              /\ Step(c, "tty_input", <<user_input>>, FALSE, FALSE)
              /\ UNCHANGED <<manager, append_run, sent>>
         [] OTHER ->
              LET r == AddToConversation(conversation, "user", user_input,
                                         current_user_profile,
                                         current_assistant_profile, context_limit)
              IN  /\ conversation' = r.conversation
                  /\ append_run' = IF r.fired THEN 0 ELSE append_run + 1
                  /\ sent' = [sent EXCEPT ![c] =
                                IF r.raised
                                THEN <<Payload("user", user_input), Payload("error", "Error")>>
                                ELSE <<Payload("user", user_input)>>]
                  /\ Goto(c, IF r.raised THEN "receive" ELSE "open", None)
                  /\ Step(c, "tty_input", <<user_input>>, r.fired, r.raised)
                  /\ UNCHANGED <<key_events, character_profiles,
                                 current_assistant_profile, current_user_profile,
                                 context_limit, config_context_limit,
                                 message_count, last_cleanup>>
    /\ UNCHANGED <<system_message, response, stream>>

\* rhea.py 567-581: the stream is opened on the buffer; current_response = ""
tty_open_stream(c, st) ==
    /\ pc[c] = "open"
    /\ stream' = [stream EXCEPT ![c] = Some(st)]
    /\ response' = [response EXCEPT ![c] = << >>]
    /\ Goto(c, "stream", None)
    /\ Step(c, "tty_open_stream", << >>, FALSE, FALSE)
    /\ UNCHANGED <<manager, append_run, system_message, sent>>

\* rhea.py 582-588: one round of the loop: the fragment is added to
\* current_response and the live display is updated with the formatted
\* accumulation; the gateway raising, or ending, leaves the loop.
tty_chunk(c) ==
    LET st == stream[c][1]
        next == StreamNext(st)
        current_response == Join(Append(response[c], st.chunks[st.pos + 1]), "")
    IN  /\ pc[c] = "stream"
        /\ CASE next = "chunk" ->
                 /\ stream' = [stream EXCEPT ![c] = Some([st EXCEPT !.pos = st.pos + 1])]
                 /\ response' = [response EXCEPT ![c] = Append(response[c], st.chunks[st.pos + 1])]
                 /\ sent' = [sent EXCEPT ![c] =
                               Append(sent[c], Payload("live", format_streaming_text(current_response)))]
                 /\ Goto(c, "stream", None)
             [] next = "raise" ->
                 /\ Goto(c, "except", Some("GatewayError"))
                 /\ UNCHANGED <<stream, response, sent>>
             [] next = "stop" ->
                 /\ Goto(c, "store", None)
                 /\ UNCHANGED <<stream, response, sent>>
        /\ Step(c, "tty_chunk", <<next>>, FALSE, next = "raise")
        /\ UNCHANGED <<manager, append_run, system_message>>

\* rhea.py 590-591: the response is shown and handed to add_to_conversation.
tty_store(c) ==
    LET current_response == Join(response[c], "")
        r == AddToConversation(conversation, "assistant", current_response,
                               current_user_profile, current_assistant_profile,
                               context_limit)
    IN  /\ pc[c] = "store"
        /\ conversation' = r.conversation
        /\ append_run' = IF r.fired THEN 0 ELSE append_run + 1
        /\ sent' = [sent EXCEPT ![c] = Append(sent[c], Payload("assistant", current_response))]
        /\ Goto(c, IF r.raised THEN "except" ELSE "receive",
                IF r.raised THEN Some("AttributeError") ELSE None)
        /\ Step(c, "tty_store", << >>, r.fired, r.raised)
        /\ UNCHANGED <<key_events, character_profiles, current_assistant_profile,
                       current_user_profile, context_limit, config_context_limit,
                       message_count, last_cleanup, system_message, response, stream>>

\* rhea.py 593-598: the exception is shown as a system message of the
\* interface and the loop goes on to the next input.
tty_except(c) ==
    /\ pc[c] = "except"
    /\ sent' = [sent EXCEPT ![c] = Append(sent[c], Payload("error", exc[c][1]))]
    /\ Goto(c, "receive", None)
    /\ Step(c, "tty_except", <<exc[c][1]>>, FALSE, FALSE)
    /\ UNCHANGED <<manager, append_run, system_message, response, stream>>

\* rhea.py 320-327: run_llm opens the stream on the buffer.
llm_open_stream(c, st) ==
    /\ pc[c] = "start"
    /\ stream' = [stream EXCEPT ![c] = Some(st)]
    /\ response' = [response EXCEPT ![c] = << >>]
    /\ sent' = [sent EXCEPT ![c] = << >>]
    /\ Goto(c, "stream", None)
    /\ Step(c, "llm_open_stream", << >>, FALSE, FALSE)
    /\ UNCHANGED <<manager, append_run, system_message>>

\* rhea.py 328-331: one round of the loop: the fragment is kept and printed.
llm_chunk(c) ==
    LET st == stream[c][1]
        next == StreamNext(st)
    IN  /\ pc[c] = "stream"
        /\ CASE next = "chunk" ->
                 /\ stream' = [stream EXCEPT ![c] = Some([st EXCEPT !.pos = st.pos + 1])]
                 /\ response' = [response EXCEPT ![c] = Append(response[c], st.chunks[st.pos + 1])]
                 /\ sent' = [sent EXCEPT ![c] =
                               Append(sent[c], Payload("chunk", st.chunks[st.pos + 1]))]
                 /\ Goto(c, "stream", None)
             [] next = "raise" ->
                 /\ Goto(c, "except", Some("GatewayError"))
                 /\ UNCHANGED <<stream, response, sent>>
             [] next = "stop" ->
                 /\ Goto(c, "store", None)
                 /\ UNCHANGED <<stream, response, sent>>
        /\ Step(c, "llm_chunk", <<next>>, FALSE, next = "raise")
        /\ UNCHANGED <<manager, append_run, system_message>>

\* rhea.py 333-335: the joined response is handed to add_to_conversation and
\* run_llm returns True.
llm_store(c) ==
    LET full_response == Join(response[c], "")
        r == AddToConversation(conversation, "assistant", full_response,
                               current_user_profile, current_assistant_profile,
                               context_limit)
    IN  /\ pc[c] = "store"
        /\ conversation' = r.conversation
        /\ append_run' = IF r.fired THEN 0 ELSE append_run + 1
        /\ Goto(c, IF r.raised THEN "except" ELSE "start",
                IF r.raised THEN Some("AttributeError") ELSE None)
        /\ Step(c, "llm_store", << >>, r.fired, r.raised)
        /\ UNCHANGED <<key_events, character_profiles, current_assistant_profile,
                       current_user_profile, context_limit, config_context_limit,
                       message_count, last_cleanup, system_message, response,
                       stream, sent>>

\* rhea.py 337-339: the exception is printed and run_llm returns False.
llm_except(c) ==
    /\ pc[c] = "except"
    /\ sent' = [sent EXCEPT ![c] = Append(sent[c], Payload("error", exc[c][1]))]
    /\ Goto(c, "start", None)
    /\ Step(c, "llm_except", <<exc[c][1]>>, FALSE, FALSE)
    /\ UNCHANGED <<manager, append_run, system_message, response, stream>>

----------------------------------------------------------------------------
(* The manager driven through its operations, one call at a time *)

RECURSIVE Repeat(_, _)
Repeat(s, n) ==
    IF n = 0 THEN ""
    ELSE LET half == Repeat(s, n \div 2)
         IN  IF n % 2 = 0 THEN half \o half ELSE half \o half \o s

ScenarioContextLimit == 100

ContextLimits == {ScenarioContextLimit, DefaultContextLimit}

ShortText == "How are you?"

MediumText == "Tell me about the sea."

LongText == Repeat("word ", 320)

Utterances ==
    {<<"user", MediumText>>, <<"assistant", ShortText>>, <<"user", LongText>>}

Events == {"met at the library"}

MaxConversation == 7

MaxKeyEvents == 1

StoredProfile(role) ==
    IF role = "assistant" THEN DefaultAssistantProfile ELSE DefaultUserProfile

Init ==
    /\ \E profiles \in {EmptyStore, DefaultStore}, limit \in ContextLimits :
          Constructed(profiles, limit)
    /\ SessionsStart({})

Next ==
    \/ \E u \in Utterances :
          /\ Len(conversation) < MaxConversation
          /\ add_to_conversation(u[1], u[2])
    \/ \E role \in {"user", "assistant"} :
          add_character_profile(role, StoredProfile(role))
    \/ set_current_profiles("user", "assistant")

Spec == Init /\ [][Next]_vars

----------------------------------------------------------------------------
(* Properties of append and implicit compaction, checked under Spec *)

Profiles == {DefaultAssistantProfile, DefaultUserProfile}

\* A summarization marker: the synthetic system message of a compaction.
IsMarker(m) == \E up \in Profiles, ap \in Profiles : m = summary_msg(up, ap)

Appended == last.op = "add_to_conversation"

\* The buffer right after the push of the last append, before any compaction.
Pushed ==
    Append(prev, [role |-> last.arg[1],
                  content |-> profile_context(last.arg[1], last.arg[2],
                                              current_user_profile,
                                              current_assistant_profile)])

KeepCount == Max(4, context_limit \div 1000)

\* C2: no element at index >= 1 has role "system" except at most one
\* summarization marker, and that marker sits at index 1.
C2_OnlyMarkerAtIndexOne ==
    \A i \in 2..Len(conversation) :
        conversation[i].role = "system" => (i = 2 /\ IsMarker(conversation[i]))

\* C3: after every append (compaction included) the total content length is
\* at most the context limit.
C3_TotalWithinLimit ==
    Appended => TotalLength(conversation) <= context_limit

\* C4: an append that finds the total length above contextLimit * 0.75 leaves
\* at most keepCount + 2 elements, keepCount = max(4, contextLimit // 1000).
C4_CompactionBound ==
    (Appended /\ 4 * TotalLength(prev) > 3 * context_limit)
        => Len(conversation) <= KeepCount + 2

C4_Witness ==
    /\ Appended
    /\ 4 * TotalLength(prev) > 3 * context_limit
    /\ Len(prev) > KeepCount
    /\ Len(conversation) = KeepCount + 2
    /\ context_limit = DefaultContextLimit

\* C5: a compacting append leaves exactly the system message of index 0, then
\* (if more than 2 elements result) one marker, then the last min(keepCount, n)
\* of the n messages that followed index 0, in their order.
C5_CompactionResult ==
    (Appended /\ last.fired) =>
        LET n == Len(Pushed) - 1
            tail == LastN(Tail(Pushed), Min(KeepCount, n))
        IN  IF 1 + Len(tail) > 2
            THEN /\ Len(conversation) = Len(tail) + 2
                 /\ conversation[1] = Pushed[1]
                 /\ IsMarker(conversation[2])
                 /\ SubSeq(conversation, 3, Len(conversation)) = tail
            ELSE conversation = <<Pushed[1]>> \o tail

\* C6 as stated: with contextLimit = 100 an append leaving the total at 80
\* does not compact: the buffer is the pushed one, nothing dropped, no marker
\* inserted (compaction would first fire at a later append, at 120).
C6_NoCompactionAt80 ==
    (Appended /\ context_limit = ScenarioContextLimit /\ TotalLength(Pushed) = 80)
        => (conversation = Pushed /\ ~last.raised)

\* C6 amended: with contextLimit = 100 the threshold is 75 characters.  An
\* append leaving the total at 75 or less keeps the buffer as pushed; one
\* leaving it above 75 (80 included) rebuilds it as the head, a marker (unless
\* building the marker raised) and the last 4 elements of the pushed buffer.
C6_ThresholdAt75 ==
    (Appended /\ context_limit = ScenarioContextLimit) =>
        /\ TotalLength(Pushed) <= 75 => (conversation = Pushed /\ ~last.raised)
        /\ TotalLength(Pushed) > 75 =>
              IF last.raised
              THEN conversation = <<Pushed[1]>> \o LastN(Pushed, 4)
              ELSE /\ Len(conversation) = Min(Len(Pushed), 4) + 2
                   /\ conversation[1] = Pushed[1]
                   /\ IsMarker(conversation[2])
                   /\ SubSeq(conversation, 3, Len(conversation)) = LastN(Pushed, 4)

C6_Witness ==
    /\ Appended
    /\ context_limit = ScenarioContextLimit
    /\ TotalLength(Pushed) = 80
    /\ ~last.raised
    /\ Len(conversation) > Len(Pushed)
    /\ IsMarker(conversation[2])

C6_WitnessBoundary ==
    /\ Appended
    /\ context_limit = ScenarioContextLimit
    /\ TotalLength(Pushed) = 75
    /\ conversation = Pushed

\* C10: add_to_conversation never raises, whichever profiles are set.
C10_AppendNeverRaises ==
    Appended => ~last.raised

----------------------------------------------------------------------------
(* Long runs of short turns: the buffer under append, periodic cleanup, *)
(* explicit trim and key events                                         *)

TurnText == "hi"

TrimPercentages == {20, 50}

MaxAppendRun == 50

MaxMessageCount == 50

InitCleanup ==
    /\ \E profiles \in {EmptyStore, DefaultStore}, limit \in ContextLimits :
          Constructed(profiles, limit)
    /\ SessionsStart({})

NextCleanup ==
    \/ /\ Len(conversation) <= MaxAppendRun
       /\ append_run < MaxAppendRun
       /\ add_to_conversation("user", TurnText)
    \/ /\ message_count < MaxMessageCount
       /\ periodic_cleanup
    \/ \E p \in TrimPercentages : trim_context(p)
    \/ \E e \in Events :
          /\ Len(key_events) < MaxKeyEvents
          /\ add_key_event(e)

SpecCleanup == InitCleanup /\ [][NextCleanup]_vars

----------------------------------------------------------------------------
(* Properties of long runs, checked under SpecCleanup *)

\* C1: the buffer is never empty and its first element has role "system".
C1_HeadIsSystem ==
    /\ conversation # << >>
    /\ conversation[1].role = "system"

\* A periodic cleanup has just cut a buffer of more than 5 elements whose
\* system message a key event had rebuilt.
C1_Witness ==
    /\ last.op = "periodic_cleanup"
    /\ last.fired
    /\ Len(prev) > 5
    /\ Len(conversation) < Len(prev)
    /\ key_events # << >>
    /\ conversation[1].role = "system"

\* C7: at the end of the 50th of 50 appends none of which compacted, the
\* periodic trim has run: the buffer has at most max(4, priorLength // 4) + 1
\* elements, priorLength being its length as the 50th append pushed it.
C7_TrimmedAfterFiftyAppends ==
    (Appended /\ append_run = CleanupInterval)
        => Len(conversation) <= Max(4, Len(Pushed) \div 4) + 1

\* w(m): the word count of a message.
Words(m) == WordCount(m.content)

RECURSIVE SumFrom(_, _)
SumFrom(w, k) == IF k > Len(w) THEN 0 ELSE w[k] + SumFrom(w, k + 1)

\* The buffer C8 describes: the head, then the longest suffix conv[k..] of the
\* other messages such that, scanned from the most recent message backwards,
\* every running sum of words, the head's included, is <= limit * p / 100.
LongestSuffixTrim(conv, limit, p) ==
    LET w == [i \in 1..Len(conv) |-> Words(conv[i])]
        within(k) == \A j \in k..Len(conv) : 100 * (w[1] + SumFrom(w, j)) <= limit * p
        fits == {k \in 2..(Len(conv) + 1) : within(k)}
        first == CHOOSE k \in fits : \A k2 \in fits : k <= k2
    IN  <<conv[1]>> \o SubSeq(conv, first, Len(conv))

\* C8: trim-to-target(p) leaves the head followed by the longest suffix of the
\* other messages whose words, with the head's, stay within the target.
C8_TrimKeepsLongestSuffix ==
    last.op = "trim_context"
        => conversation = LongestSuffixTrim(prev, config_context_limit, last.arg[1])

----------------------------------------------------------------------------
(* One chat session at a time: a WebSocket connection, the terminal loop, *)
(* or a caller of run_llm                                                 *)

ResponseChunks == <<"*Hel", "lo* there">>

\* The streams the gateway can hand back: any prefix of the response, ending
\* normally or with an exception.
Streams(messages) ==
    {GatewayStream(messages, SubSeq(ResponseChunks, 1, k), f) :
        k \in 0..Len(ResponseChunks), f \in BOOLEAN}

WsMessages == {"", ShortText}

TtyInputs == {" ", "/key met at the library", "/events", "/exit", ShortText}

MaxChatConversation == 5

InitChat ==
    /\ \E profiles \in {EmptyStore, DefaultStore}, limit \in ContextLimits :
          Constructed(profiles, limit)
    /\ \E c \in {"ws1", "tty", "llm"} : SessionsStart({c})

NextChat ==
    \/ ws_set_profiles("ws1")
    \/ ws_clear("ws1")
    \/ ws_compose("ws1")
    \/ ws_install("ws1")
    \/ ws_greet("ws1")
    \/ \E message \in WsMessages :
          /\ Len(conversation) < MaxChatConversation
          /\ ws_receive("ws1", message)
    \/ ws_check_head("ws1")
    \/ \E st \in Streams(conversation) : ws_open_stream("ws1", st)
    \/ ws_chunk("ws1")
    \/ ws_store("ws1")
    \/ ws_except("ws1")
    \/ \E user_role \in {"user", "assistant"}, assistant_role \in {"user", "assistant"} :
          tty_start("tty", user_role, assistant_role)
    \/ \E user_input \in TtyInputs :
          /\ Len(conversation) < MaxChatConversation
          /\ StartsWith(user_input, "/key ") => Len(key_events) < MaxKeyEvents
          /\ tty_input("tty", user_input)
    \/ \E st \in Streams(conversation) : tty_open_stream("tty", st)
    \/ tty_chunk("tty")
    \/ tty_store("tty")
    \/ tty_except("tty")
    \/ /\ pc["llm"] = "start"
       /\ Len(conversation) < MaxChatConversation
       /\ add_to_conversation("user", ShortText)
    \/ \E st \in Streams(conversation) :
          /\ Len(conversation) < MaxChatConversation
          /\ llm_open_stream("llm", st)
    \/ llm_chunk("llm")
    \/ llm_store("llm")
    \/ llm_except("llm")

SpecChat == InitChat /\ [][NextChat]_vars


----------------------------------------------------------------------------
(* Properties of a chat turn, checked under SpecChat *)

\* The fragments the gateway has yielded so far on the stream of session c.
Emitted(c) == SubSeq(stream[c][1].chunks, 1, stream[c][1].pos)

\* What the client of session c has been handed once the fragments fs went
\* through the loop: one chunk payload per fragment on the WebSocket and in
\* run_llm, one update of the live display per fragment on the terminal.
Forwarded(c, fs) ==
    [i \in 1..Len(fs) |->
        IF c = "tty"
        THEN Payload("live", format_streaming_text(Join(SubSeq(fs, 1, i), "")))
        ELSE Payload("chunk", fs[i])]

\* What the client has been handed in this turn before the first fragment.
TurnPrefix(c) == IF c = "tty" THEN <<Payload("user", ShortText)>> ELSE << >>

GatewayRaised(c) == pc[c] = "except" /\ exc[c] = Some("GatewayError")

FailureReported(c) ==
    /\ last.op \in {"ws_except", "tty_except", "llm_except"}
    /\ last.arg = <<c, "GatewayError">>

\* C9: when the gateway raises after k >= 0 fragments, the k fragments have
\* already been forwarded to the client in order when the failure is caught;
\* the handler then reports an error payload after them; neither the failing
\* step nor the report appends anything, so the buffer is still the one the
\* gateway was called on, which is the buffer as the user message left it.
C9_GenerationFailure ==
    \A c \in {"ws1", "tty", "llm"} :
       /\ last.op = "ws_check_head" => conversation = prev
       /\ GatewayRaised(c) =>
             /\ sent[c] = TurnPrefix(c) \o Forwarded(c, Emitted(c))
             /\ response[c] = Emitted(c)
             /\ conversation = stream[c][1].messages
       /\ FailureReported(c) =>
             /\ sent[c] = TurnPrefix(c) \o Forwarded(c, Emitted(c))
                             \o <<Payload("error", "GatewayError")>>
             /\ conversation = stream[c][1].messages
             /\ pc[c] \in {"receive", "start"}

\* The gateway raised after two fragments on the WebSocket and the failure
\* has been reported.
C9_Witness ==
    /\ FailureReported("ws1")
    /\ Len(Emitted("ws1")) = 2
    /\ Len(sent["ws1"]) = 3

\* The same on the terminal.
C9_WitnessTerminal ==
    /\ FailureReported("tty")
    /\ Len(Emitted("tty")) = 2

----------------------------------------------------------------------------
(* Persona and memory state: profiles stored, deleted and made current,   *)
(* key events, Clear, and appends in between                              *)

\* manage_profiles, choice 3 (rhea.py 456-466): the role is deleted from the
\* store; the current profiles are not touched.
delete_profile(role) ==
    /\ role \in DOMAIN character_profiles
    /\ character_profiles' =
           [k \in DOMAIN character_profiles \ {role} |-> character_profiles[k]]
    /\ prev' = conversation
    /\ last' = Outcome("delete_profile", <<role>>, FALSE, FALSE)
    /\ UNCHANGED <<append_run, session>>
    /\ UNCHANGED <<conversation, key_events, current_assistant_profile,
                   current_user_profile, context_limit, config_context_limit,
                   message_count, last_cleanup>>

PersonaEvents == {"met at the library", "moved to Lisbon"}

MaxPersonaEvents == 2

MaxPersonaConversation == 3

InitPersona ==
    /\ \E profiles \in {EmptyStore, DefaultStore}, limit \in ContextLimits :
          Constructed(profiles, limit)
    /\ SessionsStart({})

NextPersona ==
    \/ \E role \in {"user", "assistant"} :
          add_character_profile(role, StoredProfile(role))
    \/ \E role \in {"user", "assistant"} : delete_profile(role)
    \/ set_current_profiles("user", "assistant")
    \/ \E e \in PersonaEvents :
          /\ Len(key_events) < MaxPersonaEvents
          /\ add_key_event(e)
    \/ clear_conversation
    \/ /\ Len(conversation) < MaxPersonaConversation
       /\ append_run < MaxPersonaConversation
       /\ add_to_conversation("user", ShortText)

SpecPersona == InitPersona /\ [][NextPersona]_vars

----------------------------------------------------------------------------
(* Properties of the system prompt, checked under SpecPersona *)

AssistantOnly == current_assistant_profile # None /\ current_user_profile = None

\* C11: with the assistant profile present and the user profile absent the
\* composer returns a system message instead of raising, so add_key_event
\* completes and Clear leaves the buffer holding the composed message.
C11_ComposerTotal ==
    AssistantOnly =>
        /\ _create_system_message(current_assistant_profile,
                                  current_user_profile, key_events) # None
        /\ last.op = "add_key_event" => ~last.raised
        /\ last.op = "clear_conversation" =>
              /\ Len(conversation) = 1
              /\ conversation[1].role = "system"

\* C12: after add_key_event and after set_current_profiles the element of
\* index 0 is the system message composed from the profiles and key events as
\* the operation left them, and the buffer has kept its length.  (Stated for
\* the persona states in which composing does not raise.)
C12_HeadFreshlyComposed ==
    (last.op \in {"add_key_event", "set_current_profiles"} /\ ~AssistantOnly) =>
        /\ Len(conversation) = Len(prev)
        /\ conversation # << >> =>
              Some(conversation[1]) =
                  _create_system_message(current_assistant_profile,
                                         current_user_profile, key_events)

----------------------------------------------------------------------------
(* Properties of what a chat turn stores, checked under SpecChat *)

\* "<speaker name>:\n<raw text>", or the raw text when the speaker's profile
\* is absent.
WireFormat(role, raw) ==
    LET speaker == IF role = "user" THEN current_user_profile
                   ELSE current_assistant_profile
    IN  IF speaker = None THEN raw ELSE speaker[1].name \o ":\n" \o raw

\* The step just taken stored a message of a chat turn: its role and raw text
\* (the client's utterance, or the concatenated fragments), if any.
TurnStored ==
    IF last.op \in {"ws_receive", "tty_input"} /\ last.arg[2] = ShortText
       THEN Some([role |-> "user", raw |-> last.arg[2]])
    ELSE IF last.op \in {"ws_store", "tty_store", "llm_store"}
            /\ (last.op = "ws_store" => current_assistant_profile # None)
       THEN Some([role |-> "assistant", raw |-> Join(response[last.arg[1]], "")])
    ELSE None

\* C13: the message a chat turn stores, user or assistant, terminal or
\* WebSocket, is the last element of the buffer and its content is the raw
\* text prefixed once with the speaker's name (verbatim without a profile).
C13_WireFormat ==
    TurnStored # None =>
        conversation[Len(conversation)] =
            [role |-> TurnStored[1].role,
             content |-> WireFormat(TurnStored[1].role, TurnStored[1].raw)]

----------------------------------------------------------------------------
(* One server process, two WebSocket connections: api.py's chat_manager is *)
(* a module-level object, and each connection runs chat() on it            *)

Connections == {"ws1", "ws2"}

ServerLimits == {DefaultContextLimit}

MaxServerConversation == 3

InitServer ==
    /\ \E limit \in ServerLimits : Constructed(DefaultStore, limit)
    /\ SessionsStart(Connections)

NextServer ==
    \E c \in Connections :
        \/ ws_set_profiles(c)
        \/ ws_clear(c)
        \/ ws_compose(c)
        \/ ws_install(c)
        \/ ws_greet(c)
        \/ \E message \in WsMessages :
              /\ Len(conversation) < MaxServerConversation
              /\ ws_receive(c, message)
        \/ ws_check_head(c)
        \/ \E st \in Streams(conversation) : ws_open_stream(c, st)
        \/ ws_chunk(c)
        \/ ws_store(c)
        \/ ws_except(c)

SpecServer == InitServer /\ [][NextServer]_vars

----------------------------------------------------------------------------
(* Properties of concurrent connections, checked under SpecServer *)

\* The turn of connection c is in flight: its user message is appended, its
\* response neither appended nor failed yet.
InFlight(c) == pc[c] \in {"check", "open", "stream", "store"}

\* The step just taken was another handler than c's appending a user message
\* or re-initializing the buffer.
Intruded(c) ==
    /\ last.op \in {"ws_receive", "ws_clear", "ws_install"}
    /\ last.arg[1] # c
    /\ last.op = "ws_receive" => last.arg[2] # ""

\* C14: at most one turn is in flight on the buffer, and while a turn is in
\* flight no other user message is appended and the buffer is not
\* re-initialized.
C14_TurnSerialization ==
    /\ ~(InFlight("ws1") /\ InFlight("ws2"))
    /\ \A c \in Connections : InFlight(c) => ~Intruded(c)

\* Connection c's handler is past its own initialization, in its message loop,
\* where every step reads or extends the shared buffer.
InLoop(c) == pc[c] \in {"receive", "check", "open", "stream", "store", "except"}

\* C15: a handler running while another connection re-initializes the buffer
\* never finds the buffer empty or headed by anything but a system message.
C15_NeverObservedEmpty ==
    \A c \in Connections :
        InLoop(c) => /\ conversation # << >>
                     /\ conversation[1].role = "system"

FallbackMessage == [role |-> "system", content |-> "Basic AI assistant mode."]

\* C16: with the assistant profile absent the composer yields the fixed
\* fallback content whatever the user profile and the key events, and the
\* constructor and Clear leave the buffer holding that message alone.
C16_Fallback ==
    current_assistant_profile = None =>
        /\ \A up \in {None, Some(DefaultUserProfile), current_user_profile} :
           \A events \in {<< >>, key_events} :
              _create_system_message(None, up, events) = Some(FallbackMessage)
        /\ last.op \in {"__init__", "clear_conversation"} =>
              conversation = <<FallbackMessage>>

\* Clear has just reset a longer buffer to the fallback message, with a user
\* profile current and a key event logged.
C16_Witness ==
    /\ last.op = "clear_conversation"
    /\ current_assistant_profile = None
    /\ current_user_profile # None
    /\ key_events # << >>
    /\ Len(prev) > 1
    /\ conversation = <<FallbackMessage>>

----------------------------------------------------------------------------
(* Properties of a successful turn, checked under SpecChat *)

\* str.endswith
EndsWith(text, suffix) ==
    IF Len(text) < Len(suffix) THEN FALSE
    ELSE SubSeq(text, Len(text) - Len(suffix) + 1, Len(text)) = suffix

TurnCompleted(c) ==
    /\ last.op \in {"ws_store", "tty_store"}
    /\ last.arg[1] = c
    /\ ~last.raised

\* C17: while the stream is read, the client has been handed exactly the
\* fragments consumed so far, one payload each and in order, and nothing is
\* appended yet; the append comes once the stream is exhausted and stores an
\* assistant message whose text is the concatenation of all the fragments.
C17_StreamingIntegrity ==
    \A c \in {"ws1", "tty"} :
       /\ pc[c] \in {"stream", "store"} =>
             /\ sent[c] = TurnPrefix(c) \o Forwarded(c, Emitted(c))
             /\ response[c] = Emitted(c)
             /\ conversation = stream[c][1].messages
       /\ pc[c] = "store" => Emitted(c) = stream[c][1].chunks
       /\ TurnCompleted(c) =>
             /\ Emitted(c) = stream[c][1].chunks
             /\ conversation[Len(conversation)].role = "assistant"
             /\ EndsWith(conversation[Len(conversation)].content,
                         current_assistant_profile[1].name \o ":\n"
                            \o Join(stream[c][1].chunks, ""))

\* A WebSocket turn has completed on a stream of two fragments.
C17_Witness ==
    /\ TurnCompleted("ws1")
    /\ Len(stream["ws1"][1].chunks) = 2
    /\ Len(sent["ws1"]) = 2
    /\ ~stream["ws1"][1].fails

----------------------------------------------------------------------------
(* The turn counter: periodic_cleanup called over and over, with appends  *)
(* in between                                                             *)

MaxPeriodicCalls == 101

MaxPeriodicConversation == 24

InitPeriodic ==
    /\ \E profiles \in {EmptyStore, DefaultStore} :
          Constructed(profiles, DefaultContextLimit)
    /\ SessionsStart({})

NextPeriodic ==
    \/ /\ message_count < MaxPeriodicCalls
       /\ periodic_cleanup
    \/ /\ Len(conversation) < MaxPeriodicConversation
       /\ append_run < MaxPeriodicConversation
       /\ add_to_conversation("user", TurnText)

SpecPeriodic == InitPeriodic /\ [][NextPeriodic]_vars

\* C18: the counter stays within 0 <= message_count - last_cleanup < 50; a
\* call trims exactly when it is the 50th since the last trim (or since
\* construction); a call that does not trim leaves the buffer as it was; one
\* that trims leaves buffer[0] followed by the last max(4, len // 4) elements
\* of the old buffer.
C18_PeriodicCleanup ==
    /\ 0 <= message_count - last_cleanup
    /\ message_count - last_cleanup < 50
    /\ last.op = "periodic_cleanup" =>
          /\ last.fired <=> message_count % 50 = 0
          /\ last.fired => last_cleanup = message_count
          /\ ~last.fired => conversation = prev
          /\ last.fired =>
                conversation =
                    <<prev[1]>> \o LastN(prev, Max(4, Len(prev) \div 4))

\* The second trim, at the 100th call, has cut a buffer of 20 elements or
\* more down to its head and its last quarter.
C18_Witness ==
    /\ last.op = "periodic_cleanup"
    /\ last.fired
    /\ message_count = 100
    /\ Len(prev) >= 20
    /\ Len(conversation) = Len(prev) \div 4 + 1

----------------------------------------------------------------------------
(* The two context limits: ChatManager.context_limit, read by             *)
(* add_to_conversation, and Configuration.context_limit, read by the      *)
(* context routes of api.py                                               *)

\* ConfigManager.show_config_menu, choice 2 then 5, entered from the main menu
\* of rhea.py: the configuration object takes the new limit; the ChatManager
\* built before the menu loop is not told.
show_config_menu(limit) ==
    /\ config_context_limit' = limit
    /\ prev' = conversation
    /\ last' = Outcome("show_config_menu", <<limit>>, TRUE, FALSE)
    /\ UNCHANGED <<conversation, key_events, character_profiles,
                   current_assistant_profile, current_user_profile,
                   context_limit, message_count, last_cleanup, append_run,
                   session>>

\* PUT /api/config with {"context_limit": limit}.  Its first statement reads
\* request.method; with the name defined, the configuration object alone is
\* updated.
handle_config(limit) ==
    LET raised == ~NameDefined("request") \/ ~NameDefined("jsonify")
    IN  /\ config_context_limit' = IF NameDefined("request")
                                   THEN limit ELSE config_context_limit
        /\ prev' = conversation
        /\ last' = Outcome("handle_config", <<limit>>,
                           NameDefined("request"), raised)
        /\ UNCHANGED <<conversation, key_events, character_profiles,
                       current_assistant_profile, current_user_profile,
                       context_limit, message_count, last_cleanup, append_run,
                       session>>

\* GET /api/context/status: the limit it reports, and the call itself, which
\* computes the figures and then evaluates jsonify.
context_status_limit == config_context_limit

get_context_status ==
    /\ prev' = conversation
    /\ last' = Outcome("get_context_status", <<context_status_limit>>, FALSE,
                       ~NameDefined("jsonify"))
    /\ UNCHANGED <<manager, append_run, session>>

ConfigLimits == {50, ScenarioContextLimit, DefaultContextLimit}

MaxConfigConversation == 6

InitConfig ==
    /\ \E limit \in ContextLimits : Constructed(DefaultStore, limit)
    /\ SessionsStart({})

NextConfig ==
    \/ \E limit \in ConfigLimits : show_config_menu(limit)
    \/ \E limit \in ConfigLimits : handle_config(limit)
    \/ get_context_status
    \/ \E p \in TrimPercentages : trim_context(p)
    \/ \E text \in {ShortText, MediumText} :
          /\ Len(conversation) < MaxConfigConversation
          /\ append_run < MaxConfigConversation
          /\ add_to_conversation("user", text)

SpecConfig == InitConfig /\ [][NextConfig]_vars

\* C19: in every reachable state the limit that add_to_conversation compares
\* the buffer against is the limit that trim_context and get_context_status
\* read, also after the configuration's context_limit has been changed.
C19_SingleContextLimit == context_limit = context_status_limit

=============================================================================
